---- MODULE Spec2Model ----
(***************************************************************************)
(* Model of src/src/main.rs: the compound-interest simulator.              *)
(*                                                                         *)
(*   calculate_monthly_investment_for_target   closed-form contribution    *)
(*   simulate_index_investment                 month-by-month accumulation *)
(*   format_yen                                magnitude-band formatter    *)
(*   main                                      the report driver           *)
(*                                                                         *)
(* Arithmetic.  The program computes in f64.  An f64 value is modelled as  *)
(* an exact rational (sign, numerator, denominator) or one of the IEEE-754 *)
(* special values NaN, +Inf, -Inf, which the program produces by dividing  *)
(* by zero.  Numerators and denominators are arbitrary-precision naturals  *)
(* (little-endian sequences of limbs), because (1 + r)^360 does not fit    *)
(* the model checker's machine integers.  What is abstracted: the rounding *)
(* of each operation to 53 bits, the overflow of finite values beyond      *)
(* f64::MAX, and the sign of zero.  For the inputs enumerated here all     *)
(* values stay far inside the finite f64 range and the accumulated         *)
(* rounding error is many orders of magnitude below every margin compared. *)
(***************************************************************************)
EXTENDS Integers, Sequences, FiniteSets, TLC

(***************************************************************************)
(* Arbitrary-precision naturals: <<l1, ..., lk>> is the sum of             *)
(* l_i * Base^(i-1), with lk # 0; zero is << >>.                           *)
(***************************************************************************)
Base == 10^4

(***************************************************************************)
(* Bindings.  CHOOSE it \in {body : v \in {e}} : TRUE is body with v bound  *)
(* to the value of e, as `let v = e;` binds it: the one element of the set *)
(* {body : v \in {e}}.  e is evaluated once, where a LET definition or an   *)
(* operator argument is evaluated again at every use.                      *)
(***************************************************************************)
RECURSIVE BFromNat(_)
BFromNat(n) == IF n = 0 THEN << >> ELSE <<n % Base>> \o BFromNat(n \div Base)

BLimb(a, i) == IF i <= Len(a) THEN a[i] ELSE 0

BMaxLen(a, b) == IF Len(a) >= Len(b) THEN Len(a) ELSE Len(b)

\* index of the most significant nonzero limb of a within lo..hi, 0 if none
RECURSIVE BTop(_, _, _)
BTop(a, lo, hi) ==
  IF lo > hi THEN 0
  ELSE IF lo = hi THEN (IF a[lo] # 0 THEN lo ELSE 0)
  ELSE CHOOSE it \in
         { (CHOOSE it \in
              { IF top # 0 THEN top ELSE BTop(a, lo, mid)
                : top \in {BTop(a, mid + 1, hi)} } : TRUE)
           : mid \in {(lo + hi) \div 2} } : TRUE

BNorm(a0) ==
  CHOOSE it \in {SubSeq(a, 1, BTop(a, 1, Len(a))) : a \in {a0}} : TRUE

\* the limbs r.d with the carry r.c on top
WithCarry(r0) ==
  CHOOSE it \in {IF r.c = 0 THEN r.d ELSE Append(r.d, r.c) : r \in {r0}} : TRUE

\* limbs lo..hi of a + b with carry c coming in: [d |-> limbs, c |-> carry out]
RECURSIVE BAddRange(_, _, _, _, _)
BAddRange(a, b, lo, hi, c) ==
  IF lo = hi
  THEN [d |-> <<(BLimb(a, lo) + BLimb(b, lo) + c) % Base>>,
        c |-> (BLimb(a, lo) + BLimb(b, lo) + c) \div Base]
  ELSE CHOOSE it \in
         { (CHOOSE it \in
              { [BAddRange(a, b, mid + 1, hi, low.c) EXCEPT !.d = low.d \o @]
                : low \in {BAddRange(a, b, lo, mid, c)} } : TRUE)
           : mid \in {(lo + hi) \div 2} } : TRUE

BAdd(a, b) ==
  IF a = << >> THEN b
  ELSE IF b = << >> THEN a
  ELSE WithCarry(BAddRange(a, b, 1, BMaxLen(a, b), 0))

\* limbs lo..hi of a - b with borrow c coming in
RECURSIVE BSubRange(_, _, _, _, _)
BSubRange(a, b, lo, hi, c) ==
  IF lo = hi
  THEN (IF a[lo] - BLimb(b, lo) - c < 0
        THEN [d |-> <<a[lo] - BLimb(b, lo) - c + Base>>, c |-> 1]
        ELSE [d |-> <<a[lo] - BLimb(b, lo) - c>>, c |-> 0])
  ELSE CHOOSE it \in
         { (CHOOSE it \in
              { [BSubRange(a, b, mid + 1, hi, low.c) EXCEPT !.d = low.d \o @]
                : low \in {BSubRange(a, b, lo, mid, c)} } : TRUE)
           : mid \in {(lo + hi) \div 2} } : TRUE

\* a - b for a >= b
BSub(a, b) ==
  IF b = << >> THEN a ELSE BNorm(BSubRange(a, b, 1, Len(a), 0).d)

\* -1, 0, 1 as a < b, a = b, a > b on the limbs lo..hi (a, b of equal length)
RECURSIVE BCmpRange(_, _, _, _)
BCmpRange(a, b, lo, hi) ==
  IF lo = hi
  THEN (IF a[lo] < b[lo] THEN -1 ELSE IF a[lo] > b[lo] THEN 1 ELSE 0)
  ELSE CHOOSE it \in
         { (CHOOSE it \in
              { IF high # 0 THEN high ELSE BCmpRange(a, b, lo, mid)
                : high \in {BCmpRange(a, b, mid + 1, hi)} } : TRUE)
           : mid \in {(lo + hi) \div 2} } : TRUE

BCmp(a, b) ==
  IF Len(a) < Len(b) THEN -1
  ELSE IF Len(a) > Len(b) THEN 1
  ELSE IF a = << >> THEN 0
  ELSE BCmpRange(a, b, 1, Len(a))

\* limbs lo..hi of a * k, for one limb k, with carry c coming in
RECURSIVE BMulLimbRange(_, _, _, _, _)
BMulLimbRange(a, k, lo, hi, c) ==
  IF lo = hi
  THEN [d |-> <<(a[lo] * k + c) % Base>>, c |-> (a[lo] * k + c) \div Base]
  ELSE CHOOSE it \in
         { (CHOOSE it \in
              { [BMulLimbRange(a, k, mid + 1, hi, low.c) EXCEPT !.d = low.d \o @]
                : low \in {BMulLimbRange(a, k, lo, mid, c)} } : TRUE)
           : mid \in {(lo + hi) \div 2} } : TRUE

BMulLimb(a, k) ==
  IF k = 0 \/ a = << >> THEN << >>
  ELSE WithCarry(BMulLimbRange(a, k, 1, Len(a), 0))

\* a * Base^n
BShift(a0, n) ==
  CHOOSE it \in
    { IF a = << >> \/ n = 0 THEN a ELSE [j \in 1..n |-> 0] \o a
      : a \in {a0} } : TRUE

\* a * (the limbs lo..hi of b, in place)
RECURSIVE BMulRange(_, _, _, _)
BMulRange(a, b, lo, hi) ==
  IF lo = hi THEN BShift(BMulLimb(a, b[lo]), lo - 1)
  ELSE CHOOSE it \in
         { (CHOOSE it \in
              { BAdd(low, high)
                : low \in {BMulRange(a, b, lo, mid)},
                  high \in {BMulRange(a, b, mid + 1, hi)} } : TRUE)
           : mid \in {(lo + hi) \div 2} } : TRUE

BMul(a, b) ==
  IF a = << >> \/ b = << >> THEN << >>
  ELSE IF b = <<1>> THEN a
  ELSE IF a = <<1>> THEN b
  ELSE IF Len(a) >= Len(b) THEN BMulRange(a, b, 1, Len(b))
  ELSE BMulRange(b, a, 1, Len(a))

\* limbs lo..hi of floor(a / k) for one limb k > 0, going down from limb hi
\* with remainder r coming in: [d |-> limbs, r |-> remainder out]
RECURSIVE BDivLimbRange(_, _, _, _, _)
BDivLimbRange(a, k, lo, hi, r) ==
  IF lo = hi
  THEN [d |-> <<(r * Base + a[lo]) \div k>>, r |-> (r * Base + a[lo]) % k]
  ELSE CHOOSE it \in
         { (CHOOSE it \in
              { [BDivLimbRange(a, k, lo, mid, high.r) EXCEPT !.d = @ \o high.d]
                : high \in {BDivLimbRange(a, k, mid + 1, hi, r)} } : TRUE)
           : mid \in {(lo + hi) \div 2} } : TRUE

\* a mod k and floor(a / k) for a # 0 and one limb k > 0
BModLimb(a, k) == BDivLimbRange(a, k, 1, Len(a), 0).r

BQuotLimb(a, k) == BNorm(BDivLimbRange(a, k, 1, Len(a), 0).d)

\* q + g * Base^(pos - 1)
BWithLimb(q, g, pos) ==
  CHOOSE it \in {BAdd(q, t) : t \in {BShift(BFromNat(g), pos - 1)}} : TRUE

\* (q + g * Base^(pos - 1)) * d
BTrial(d, q, g, pos) ==
  CHOOSE it \in {BMul(t, d) : t \in {BWithLimb(q, g, pos)}} : TRUE

\* The largest limb g with (q + g * Base^(pos-1)) * d <= n lies in
\* iv.lo..iv.hi (iv.lo always satisfies it): the half of the interval that
\* holds it
BDivNarrow(n, d, q, pos, iv) ==
  IF iv.lo = iv.hi THEN iv
  ELSE CHOOSE it \in
         { (CHOOSE it \in
              { IF BCmp(trial, n) <= 0
                THEN [lo |-> mid, hi |-> iv.hi]
                ELSE [lo |-> iv.lo, hi |-> mid - 1]
                : trial \in {BTrial(d, q, mid, pos)} } : TRUE)
           : mid \in {(iv.lo + iv.hi + 1) \div 2} } : TRUE

\* the interval iv0 halved steps times (the first half of the steps, then
\* the rest)
RECURSIVE BDivNarrowFor(_, _, _, _, _, _)
BDivNarrowFor(n, d, q, pos, iv0, steps) ==
  CHOOSE it \in
    { IF steps = 1 THEN BDivNarrow(n, d, q, pos, iv)
      ELSE BDivNarrowFor(n, d, q, pos,
                         BDivNarrowFor(n, d, q, pos, iv, steps \div 2),
                         steps - steps \div 2)
      : iv \in {iv0} } : TRUE

\* the largest limb g with (q + g * Base^(pos-1)) * d <= n: 14 halvings
\* bring 0..Base-1 down to one limb (Base <= 2^14)
BDivLimb(n, d, q, pos) ==
  BDivNarrowFor(n, d, q, pos, [lo |-> 0, hi |-> Base - 1], 14).lo

\* floor(n / d): q0 with the cnt quotient limbs from position pos downwards
\* (the upper half of the positions, then the rest)
RECURSIVE BDivFrom(_, _, _, _, _)
BDivFrom(n, d, q0, pos, cnt) ==
  CHOOSE it \in
    { IF cnt = 0 THEN q
      ELSE IF cnt = 1
      THEN (CHOOSE it \in
              {BWithLimb(q, g, pos) : g \in {BDivLimb(n, d, q, pos)}} : TRUE)
      ELSE BDivFrom(n, d, BDivFrom(n, d, q, pos, cnt \div 2),
                    pos - cnt \div 2, cnt - cnt \div 2)
      : q \in {q0} } : TRUE

BDiv(n, d) ==
  IF BCmp(n, d) < 0 THEN << >>
  ELSE BDivFrom(n, d, << >>, Len(n) - Len(d) + 1, Len(n) - Len(d) + 1)

RECURSIVE Gcd(_, _)
Gcd(p0, q0) ==
  CHOOSE it \in
    {IF q = 0 THEN p ELSE Gcd(q, p % q) : p \in {p0}, q \in {q0}} : TRUE

(***************************************************************************)
(* f64 values.  k = "fin": the rational sg * n / d (sg in {-1, 0, 1},      *)
(* n = << >> iff sg = 0, d # << >>); k = "inf": sg * infinity;             *)
(* k = "nan": not a number.                                                *)
(***************************************************************************)
NaN == [k |-> "nan", sg |-> 0, n |-> << >>, d |-> <<1>>]

Inf(s) == [k |-> "inf", sg |-> s, n |-> << >>, d |-> <<1>>]

Zero == [k |-> "fin", sg |-> 0, n |-> << >>, d |-> <<1>>]

\* s * num / (k / g) with num and the limb k both divided by their common
\* divisor g
Reduced(s, num, k, g0) ==
  CHOOSE it \in
    { IF g = 1 THEN [k |-> "fin", sg |-> s, n |-> num, d |-> <<k>>]
      ELSE [k |-> "fin", sg |-> s, n |-> BQuotLimb(num, g), d |-> <<k \div g>>]
      : g \in {g0} } : TRUE

\* The value s * num / den (den # 0).  The same number has many
\* representations; a fraction over a one-limb denominator is reduced to
\* lowest terms, which keeps the operands short and changes no value.
Fin(s, num0, den0) ==
  CHOOSE it \in
    { IF num = << >> THEN Zero
      ELSE IF Len(den) = 1 /\ den[1] > 1
      THEN Reduced(s, num, den[1], Gcd(den[1], BModLimb(num, den[1])))
      ELSE [k |-> "fin", sg |-> s, n |-> num, d |-> den]
      : num \in {num0}, den \in {den0} } : TRUE

\* the f64 whose value is the natural p
Num(p) ==
  [k |-> "fin", sg |-> IF p = 0 THEN 0 ELSE 1, n |-> BFromNat(p), d |-> <<1>>]

\* the f64 whose value is the fraction p / q of two naturals (q > 0)
Ratio(p, q) == Fin(1, BFromNat(p), BFromNat(q))

IsNaN(x) == x.k = "nan"

IsFinite(x) == x.k = "fin"

FNeg(x) == [x EXCEPT !.sg = 0 - @]

\* sign of x - y for finite x, y
FinCmp(x, y) ==
  IF x.sg # y.sg THEN (IF x.sg < y.sg THEN -1 ELSE 1)
  ELSE IF x.sg = 0 THEN 0
  ELSE CHOOSE it \in
         { x.sg * BCmp(xn, yn)
           : xn \in {BMul(x.n, y.d)}, yn \in {BMul(y.n, x.d)} } : TRUE

\* sign of x - y for non-NaN x, y
FCmp(x, y) ==
  IF x.k = "inf" /\ y.k = "inf" THEN (IF x.sg = y.sg THEN 0 ELSE x.sg)
  ELSE IF x.k = "inf" THEN x.sg
  ELSE IF y.k = "inf" THEN 0 - y.sg
  ELSE FinCmp(x, y)

\* the comparison operators of f64: every comparison with NaN is false
FLe(x0, y0) ==
  \E x \in {x0}, y \in {y0} : ~IsNaN(x) /\ ~IsNaN(y) /\ FCmp(x, y) <= 0

FLt(x0, y0) ==
  \E x \in {x0}, y \in {y0} : ~IsNaN(x) /\ ~IsNaN(y) /\ FCmp(x, y) < 0

FGe(x0, y0) ==
  \E x \in {x0}, y \in {y0} : ~IsNaN(x) /\ ~IsNaN(y) /\ FCmp(x, y) >= 0

FGt(x0, y0) ==
  \E x \in {x0}, y \in {y0} : ~IsNaN(x) /\ ~IsNaN(y) /\ FCmp(x, y) > 0

\* numeric equality (x == y of f64)
FEq(x0, y0) ==
  \E x \in {x0}, y \in {y0} : ~IsNaN(x) /\ ~IsNaN(y) /\ FCmp(x, y) = 0

\* sx * a / den + sy * b / den for sx, sy in {-1, 1}
AddOver(sx, sy, a0, b0, den) ==
  CHOOSE it \in
    { IF sx = sy THEN Fin(sx, BAdd(a, b), den)
      ELSE IF BCmp(a, b) >= 0 THEN Fin(sx, BSub(a, b), den)
      ELSE Fin(sy, BSub(b, a), den)
      : a \in {a0}, b \in {b0} } : TRUE

\* d / e when e divides d (both nonzero), << >> when it does not
ExactQuot(d, e) ==
  IF e = <<1>> THEN d
  ELSE CHOOSE it \in
         {IF BMul(k, e) = d THEN k ELSE << >> : k \in {BDiv(d, e)}} : TRUE

\* x + y for nonzero x, y with x.d >= y.d: over x.d when that is a multiple
\* of y.d, over the product of the denominators when it is not
AddCommon(x, y) ==
  CHOOSE it \in
    { IF k = << >>
      THEN AddOver(x.sg, y.sg, BMul(x.n, y.d), BMul(y.n, x.d), BMul(x.d, y.d))
      ELSE AddOver(x.sg, y.sg, x.n, BMul(y.n, k), x.d)
      : k \in {ExactQuot(x.d, y.d)} } : TRUE

FinAdd(x, y) ==
  IF x.sg = 0 THEN y
  ELSE IF y.sg = 0 THEN x
  ELSE IF BCmp(x.d, y.d) >= 0 THEN AddCommon(x, y)
  ELSE AddCommon(y, x)

FAdd(x0, y0) ==
  CHOOSE it \in
    { IF IsNaN(x) \/ IsNaN(y) THEN NaN
      ELSE IF x.k = "inf" /\ y.k = "inf" THEN (IF x.sg = y.sg THEN x ELSE NaN)
      ELSE IF x.k = "inf" THEN x
      ELSE IF y.k = "inf" THEN y
      ELSE FinAdd(x, y)
      : x \in {x0}, y \in {y0} } : TRUE

FSub(x, y) == FAdd(x, FNeg(y))

FMul(x0, y0) ==
  CHOOSE it \in
    { IF IsNaN(x) \/ IsNaN(y) THEN NaN
      ELSE IF x.k = "inf" \/ y.k = "inf"
      THEN (IF x.sg * y.sg = 0 THEN NaN ELSE Inf(x.sg * y.sg))
      ELSE Fin(x.sg * y.sg, BMul(x.n, y.n), BMul(x.d, y.d))
      : x \in {x0}, y \in {y0} } : TRUE

\* x / y: 0/0 and inf/inf are NaN, a nonzero finite x over 0 is +-Inf
FDiv(x0, y0) ==
  CHOOSE it \in
    { IF IsNaN(x) \/ IsNaN(y) THEN NaN
      ELSE IF x.k = "inf"
      THEN (IF y.k = "inf" THEN NaN
            ELSE Inf(IF y.sg < 0 THEN 0 - x.sg ELSE x.sg))
      ELSE IF y.k = "inf" THEN Zero
      ELSE IF y.sg = 0 THEN (IF x.sg = 0 THEN NaN ELSE Inf(x.sg))
      ELSE Fin(x.sg * y.sg, BMul(x.n, y.d), BMul(x.d, y.n))
      : x \in {x0}, y \in {y0} } : TRUE

\* f64::powi(x, e) for e >= 0, as the runtime computes it (square and
\* multiply over the bits of e): r starts at 1 and the loop runs
\*   if e is odd { r *= a }; e /= 2; if e == 0 { break }; a *= a
\* (next and square are r and a after one round of it)
RECURSIVE PowiLoop(_, _, _)
PowiLoop(a, e, r) ==
  CHOOSE it \in
    { IF e \div 2 = 0 THEN next ELSE PowiLoop(square, e \div 2, next)
      : next \in {IF e % 2 = 1 THEN FMul(r, a) ELSE r},
        square \in {IF e \div 2 = 0 THEN a ELSE FMul(a, a)} } : TRUE

FPowi(x0, e) == CHOOSE it \in {PowiLoop(x, e, Num(1)) : x \in {x0}} : TRUE

(***************************************************************************)
(* Fixed-precision decimal formatting ({:.p} of an f64).                   *)
(***************************************************************************)
\* 10^p as a natural
BPow10(p) == BFromNat(10^p)

\* n - q * d
BRem(n, d, q) == CHOOSE it \in {BSub(n, p) : p \in {BMul(q, d)}} : TRUE

\* 2 * (n - q * d)
BTwiceRem(n, d, q) ==
  CHOOSE it \in {BAdd(rem, rem) : rem \in {BRem(n, d, q)}} : TRUE

\* sign of 2 * (n - q * d) - d: the remainder of n / d against half of d
BHalfCmp(n, d, q) ==
  CHOOSE it \in {BCmp(twice, d) : twice \in {BTwiceRem(n, d, q)}} : TRUE

\* n / d rounded to the nearest natural, ties to even: the quotient q, or
\* q + 1 as the sign c of 2 * remainder - d and the parity of q say
BDivRound(n0, d) ==
  CHOOSE it \in
    { (CHOOSE it \in
         { (CHOOSE it \in
              { IF c > 0 \/ (c = 0 /\ BLimb(q, 1) % 2 = 1)
                THEN BAdd(q, <<1>>) ELSE q
                : c \in {BHalfCmp(n, d, q)} } : TRUE)
           : q \in {BDiv(n, d)} } : TRUE)
      : n \in {n0} } : TRUE

\* format!("{:.p}", x): the decimal text of x with p fractional digits, as
\* [text |-> "num", neg, digits] for the digit string of round(|x| * 10^p)
\* with the point p places from the right, or the text "NaN" / "inf".
FormatFixed(x0, p) ==
  CHOOSE it \in
    { IF IsNaN(x) THEN [text |-> "NaN", neg |-> FALSE, digits |-> << >>]
      ELSE IF x.k = "inf"
      THEN [text |-> "inf", neg |-> x.sg < 0, digits |-> << >>]
      ELSE [text |-> "num", neg |-> x.sg < 0,
            digits |-> BDivRound(BMul(x.n, scale), x.d)]
      : x \in {x0}, scale \in {BPow10(p)} } : TRUE

(***************************************************************************)
(* fn calculate_monthly_investment_for_target (main.rs 2-16)               *)
(***************************************************************************)
\* months taken for the number of years itself
MonthsOfYears(years) == years

\* line 7: years * 12 (usize); its cast `months as i32` on line 14 keeps
\* the value of every month count the model can hold (below 2^31)
MonthsOf(years) == years * 12

\* line 8
MonthlyRate(annual_rate) == FDiv(annual_rate, Num(12))

\* line 14 with the difference turned round: 1 - (1 + r)^n
DenominatorDiscount(monthly_rate, months) ==
  FDiv(FSub(Num(1), FPowi(FAdd(Num(1), monthly_rate), months)), monthly_rate)

\* line 14 behind a guard for a zero rate (the limit of the quotient, months)
DenominatorZeroRate(monthly_rate, months) ==
  IF FEq(monthly_rate, Zero) THEN Num(months)
  ELSE FDiv(FSub(FPowi(FAdd(Num(1), monthly_rate), months), Num(1)),
            monthly_rate)

\* line 14
Denominator(monthly_rate, months) ==
  FDiv(FSub(FPowi(FAdd(Num(1), monthly_rate), months), Num(1)), monthly_rate)

\* lines 7-15: the three `let` bindings and the quotient returned
calculate_monthly_investment_for_target(target_amount, annual_rate, years) ==
  CHOOSE it \in
    { (CHOOSE it \in
         { FDiv(target_amount, denominator)
           : denominator \in {Denominator(monthly_rate, months)} } : TRUE)
      : months \in {MonthsOf(years)},
        monthly_rate \in {MonthlyRate(annual_rate)} } : TRUE

(***************************************************************************)
(* fn format_yen (main.rs 45-53)                                           *)
(***************************************************************************)
\* the bands with their lower ends left out (> for >=)
format_yen_exclusive(amount) ==
  IF FGt(amount, Num(100000000))
  THEN [unit |-> "oku", prec |-> 2, s |-> FormatFixed(FDiv(amount, Num(100000000)), 2)]
  ELSE IF FGt(amount, Num(10000))
  THEN [unit |-> "man", prec |-> 1, s |-> FormatFixed(FDiv(amount, Num(10000)), 1)]
  ELSE [unit |-> "yen", prec |-> 0, s |-> FormatFixed(amount, 0)]

format_yen(amount) ==
  IF FGe(amount, Num(100000000))
  THEN [unit |-> "oku", prec |-> 2, s |-> FormatFixed(FDiv(amount, Num(100000000)), 2)]
  ELSE IF FGe(amount, Num(10000))
  THEN [unit |-> "man", prec |-> 1, s |-> FormatFixed(FDiv(amount, Num(10000)), 1)]
  ELSE [unit |-> "yen", prec |-> 0, s |-> FormatFixed(amount, 0)]

(***************************************************************************)
(* State.  The three scenario values are parameters of the two calculators *)
(* and `let` bindings of main; the simulator's frame is its arguments and  *)
(* locals; out is the text written to standard output, one record a line   *)
(* or block of lines.                                                      *)
(***************************************************************************)
VARIABLES
  pc,                 \* control position
  target_amount,      \* f64
  annual_rate,        \* f64
  current_monthly,    \* f64
  required_monthly,   \* f64: last result of calculate_monthly_investment_for_target
  years,              \* usize: the horizon of the current call / table row
  monthly_investment, \* simulate_index_investment: argument
  months,             \* simulate_index_investment: years * 12
  monthly_rate,       \* simulate_index_investment: annual_rate / 12.0
  month,              \* simulate_index_investment: loop iterations completed
  wealth,             \* simulate_index_investment: running balance
  yearly_wealth,      \* simulate_index_investment: Vec<f64>, then the caller's copy
  ret,                \* where the running simulate_index_investment call returns to
  i,                  \* main: position in `periods` / index of the trajectory loop
  out                 \* standard output

scenario == <<target_amount, annual_rate, current_monthly>>

simFrame == <<years, monthly_investment, months, monthly_rate, month, wealth, yearly_wealth, ret>>

vars == <<pc, target_amount, annual_rate, current_monthly, required_monthly, years,
          monthly_investment, months, monthly_rate, month, wealth, yearly_wealth,
          ret, i, out>>

\* the frame before any call
NoFrame ==
  /\ monthly_investment = Zero
  /\ months = 0
  /\ monthly_rate = Zero
  /\ month = 0
  /\ wealth = Zero
  /\ yearly_wealth = << >>
  /\ ret = "none"

(***************************************************************************)
(* fn simulate_index_investment (main.rs 19-43)                            *)
(***************************************************************************)
\* lines 24-27: entry, with the arguments (m, annual_rate, y)
SimEnter(m, y, back) ==
  /\ monthly_investment' = m
  /\ years' = y
  /\ months' = MonthsOf(y)
  /\ monthly_rate' = MonthlyRate(annual_rate)
  /\ wealth' = Zero
  /\ yearly_wealth' = << >>
  /\ month' = 0
  /\ ret' = back
  /\ pc' = "sim"

\* the month with the interest before the contribution
MonthStepAccrueFirst(w, m, r) == FAdd(FMul(w, FAdd(Num(1), r)), m)

\* the month with line 31 as an assignment (= for +=)
MonthStepAssign(w, m, r) == FMul(m, FAdd(Num(1), r))

\* lines 31 and 34: wealth += monthly_investment; wealth *= 1.0 + monthly_rate
MonthStep(w, m, r) == FMul(FAdd(w, m), FAdd(Num(1), r))

\* line 37
IsYearEnd(mo) == mo % 12 = 0

\* lines 29-40: one iteration of `for month in 1..=months`
SimLoop ==
  /\ pc = "sim"
  /\ month < months
  /\ month' = month + 1
  /\ wealth' = MonthStep(wealth, monthly_investment, monthly_rate)
  /\ yearly_wealth' = IF IsYearEnd(month') THEN Append(yearly_wealth, wealth')
                      ELSE yearly_wealth
  /\ UNCHANGED <<pc, scenario, required_monthly, years, monthly_investment, months,
                 monthly_rate, ret, i, out>>

\* line 42: the loop is exhausted, yearly_wealth is returned to the caller
SimReturn ==
  /\ pc = "sim"
  /\ month = months
  /\ pc' = ret
  /\ UNCHANGED <<scenario, required_monthly, simFrame, i, out>>

(***************************************************************************)
(* The calculators under enumerated arguments: each behaviour picks the    *)
(* arguments, calls calculate_monthly_investment_for_target, then          *)
(* simulate_index_investment (with the current contribution, or with the   *)
(* contribution the calculator has just returned), then format_yen.        *)
(***************************************************************************)
MaxYears == 3

\* annual rates: 0, 6.0 and 12.0 (monthly rates 0, 1/2 and 1)
Rates == {Num(0), Num(6), Num(12)}

Targets == {Num(1000000), Num(100000000)}

Contributions == {Num(0), Num(200), Num(50000)}

\* amounts around the two band boundaries of format_yen
FormatAmounts ==
  {Num(0), Num(9999), Ratio(19999, 2), Num(10000), Num(99999999),
   Ratio(199999999, 2), Num(100000000), Num(250000000)}

Last(seq) == seq[Len(seq)]

Init ==
  /\ pc = "start"
  /\ target_amount \in Targets
  /\ annual_rate \in Rates
  /\ current_monthly \in Contributions
  /\ years \in 0..MaxYears
  /\ required_monthly = Zero
  /\ NoFrame
  /\ i = 0
  /\ out = << >>

CallCalculate ==
  /\ pc = "start"
  /\ required_monthly' =
       calculate_monthly_investment_for_target(target_amount, annual_rate, years)
  /\ pc' = "calculated"
  /\ UNCHANGED <<scenario, simFrame, i, out>>

CallSimulateCurrent ==
  /\ pc = "calculated"
  /\ SimEnter(current_monthly, years, "simulated")
  /\ UNCHANGED <<scenario, required_monthly, i, out>>

CallSimulateRequired ==
  /\ pc = "calculated"
  /\ SimEnter(required_monthly, years, "simulated")
  /\ UNCHANGED <<scenario, required_monthly, i, out>>

CallFormatYen ==
  /\ pc = "simulated"
  /\ \E amount \in FormatAmounts \cup {wealth} :
       out' = <<[amount |-> amount, text |-> format_yen(amount)]>>
  /\ pc' = "formatted"
  /\ UNCHANGED <<scenario, required_monthly, simFrame, i>>

Next ==
  \/ CallCalculate
  \/ CallSimulateCurrent
  \/ CallSimulateRequired
  \/ SimLoop
  \/ SimReturn
  \/ CallFormatYen

Spec == Init /\ [][Next]_vars

(***************************************************************************)
(* Properties of the three functions.                                      *)
(***************************************************************************)
Positive(x) == FGt(x, Zero)

\* the same f64 value: numerically equal, or both NaN
SameValue(x, y) == (IsNaN(x) /\ IsNaN(y)) \/ FEq(x, y)

AbsDiff(x, y) == IF FGe(x, y) THEN FSub(x, y) ELSE FSub(y, x)

\* 1e-6
RoundTripTolerance == Ratio(1, 1000000)

\* C1: for target > 0, annual_rate > 0 and years > 0, the last element of
\* simulate_index_investment(calculate_monthly_investment_for_target(target,
\* annual_rate, years), annual_rate, years) equals target within a relative
\* tolerance of 1e-6.
RoundTripConsistent ==
  (/\ pc = "simulated"
   /\ SameValue(monthly_investment, required_monthly)
   /\ Positive(annual_rate)
   /\ years > 0)
  => /\ yearly_wealth # << >>
     /\ FLe(AbsDiff(Last(yearly_wealth), target_amount),
            FMul(RoundTripTolerance, target_amount))

\* the round trip has run and ended one month of interest above the target:
\* target * (1 + annual_rate / 12)
RoundTripOvershoots ==
  /\ pc = "simulated"
  /\ SameValue(monthly_investment, required_monthly)
  /\ Positive(annual_rate)
  /\ years > 0
  /\ yearly_wealth # << >>
  /\ FEq(Last(yearly_wealth),
         FMul(target_amount, FAdd(Num(1), FDiv(annual_rate, Num(12)))))

\* the balance w after n more months with contribution c and monthly factor
\* q: each month first adds c and then multiplies by q (n months are the
\* first half of them followed by the rest)
RECURSIVE GrowFor(_, _, _, _)
GrowFor(w, c, q, n) ==
  IF n = 0 THEN w
  ELSE IF n = 1 THEN FMul(FAdd(w, c), q)
  ELSE CHOOSE it \in
         { GrowFor(half, c, q, n - n \div 2)
           : half \in {GrowFor(w, c, q, n \div 2)} } : TRUE

\* the balance after m months from 0, with monthly factor 1 + rate / 12
BalanceAfter(c, rate, m) ==
  CHOOSE it \in
    {GrowFor(Zero, c, q, m) : q \in {FAdd(Num(1), FDiv(rate, Num(12)))}} : TRUE

\* C2: simulate_index_investment returns a sequence of length years whose
\* k-th element is the balance after 12 * k months of "add the contribution,
\* then multiply by 1 + annual_rate / 12" from 0; inside the loop, after m
\* processed months the output holds floor(m / 12) elements.
YearlyBalances ==
  /\ pc = "sim" => Len(yearly_wealth) = month \div 12
  /\ pc = "simulated" =>
       /\ Len(yearly_wealth) = years
       /\ \A k \in 1..years :
            SameValue(yearly_wealth[k],
                      BalanceAfter(monthly_investment, annual_rate, 12 * k))

\* a simulation of two years or more, with a positive contribution and rate,
\* has returned
SeveralYearsSimulated ==
  /\ pc = "simulated"
  /\ years >= 2
  /\ Len(yearly_wealth) = years
  /\ Positive(monthly_investment)
  /\ IsFinite(monthly_investment)
  /\ Positive(annual_rate)

\* C3: for target > 0 and annual_rate > 0 the required monthly contribution
\* is strictly decreasing in years: for 1 <= y1 < years, the value for years
\* is strictly less than the value for y1.
RequiredDecreasesWithYears ==
  (pc = "calculated" /\ Positive(target_amount) /\ Positive(annual_rate))
  => \A y1 \in 1..(years - 1) :
       FLt(required_monthly,
           calculate_monthly_investment_for_target(target_amount, annual_rate, y1))

\* the calculator has returned a positive finite contribution for a horizon
\* that has a shorter one to compare with
LongerHorizonCalculated ==
  /\ pc = "calculated"
  /\ Positive(annual_rate)
  /\ years >= 2
  /\ IsFinite(required_monthly)
  /\ Positive(required_monthly)

\* C4: with a positive monthly contribution and a positive annual rate the
\* running balance never decreases from one month to the next, and every
\* year-end balance appended is strictly greater than the one before it.
BalanceGrows ==
  [][(/\ pc = "sim"
      /\ Positive(monthly_investment)
      /\ Positive(annual_rate)
      /\ month' = month + 1)
     => /\ FGe(wealth', wealth)
        /\ (yearly_wealth' # yearly_wealth /\ yearly_wealth # << >>)
             => FLt(Last(yearly_wealth), Last(yearly_wealth'))]_vars

\* the loop is in its third year or later with two year-end balances that
\* differ
TwoYearEndsGrown ==
  /\ pc = "sim"
  /\ Positive(monthly_investment)
  /\ Positive(annual_rate)
  /\ Len(yearly_wealth) >= 2
  /\ FLt(yearly_wealth[1], yearly_wealth[2])

\* the amount format_yen was called with, and what it returned
Formatted == out[1]

\* C5: for a non-negative amount format_yen takes exactly one band: the
\* hundred-million band (value / 1e8, two decimals) iff amount >= 100,000,000;
\* the ten-thousand band (value / 1e4, one decimal) iff 10,000 <= amount <
\* 100,000,000; the base-unit band iff amount < 10,000.  9,999 is rendered
\* "9999" in the base unit, 10,000 as "1.0" and 99,999,999 as "10000.0" in
\* the ten-thousand band, 100,000,000 as "1.00" in the hundred-million band.
FormatBands ==
  (pc = "formatted" /\ ~IsNaN(Formatted.amount) /\ Formatted.amount.sg >= 0)
  => /\ Formatted.text.unit \in {"oku", "man", "yen"}
     /\ Formatted.text.unit = "oku" <=> FGe(Formatted.amount, Num(100000000))
     /\ Formatted.text.unit = "man" <=>
          (FGe(Formatted.amount, Num(10000)) /\ FLt(Formatted.amount, Num(100000000)))
     /\ Formatted.text.unit = "yen" <=> FLt(Formatted.amount, Num(10000))
     /\ Formatted.text.prec =
          (IF Formatted.text.unit = "oku" THEN 2
           ELSE IF Formatted.text.unit = "man" THEN 1 ELSE 0)
     /\ FEq(Formatted.amount, Num(9999)) =>
          Formatted.text.unit = "yen" /\ Formatted.text.s.digits = BFromNat(9999)
     /\ FEq(Formatted.amount, Num(10000)) =>
          Formatted.text.unit = "man" /\ Formatted.text.s.digits = BFromNat(10)
     /\ FEq(Formatted.amount, Num(99999999)) =>
          Formatted.text.unit = "man" /\ Formatted.text.s.digits = BFromNat(100000)
     /\ FEq(Formatted.amount, Num(100000000)) =>
          Formatted.text.unit = "oku" /\ Formatted.text.s.digits = BFromNat(100)

\* format_yen has rendered 100,000,000, the lower end of the top band
TopBoundaryFormatted ==
  /\ pc = "formatted"
  /\ FEq(Formatted.amount, Num(100000000))
  /\ Formatted.text.unit = "oku"

\* C9: calculate_monthly_investment_for_target has no special case for
\* annual_rate = 0: with years >= 1 the monthly rate it divides by is exactly
\* zero, the call returns (no error outcome), and what it returns is NaN, not
\* target / months.
ZeroRateUnguarded ==
  (pc = "calculated" /\ FEq(annual_rate, Zero) /\ years >= 1)
  => /\ FEq(MonthlyRate(annual_rate), Zero)
     /\ IsNaN(required_monthly)
     /\ ~SameValue(required_monthly, FDiv(target_amount, Num(years * 12)))

\* the calculator has returned from a call with rate 0 and a year or more
ZeroRateCalculated ==
  /\ pc = "calculated"
  /\ FEq(annual_rate, Zero)
  /\ years >= 1
  /\ ~IsFinite(required_monthly)

\* C10: for target > 0, annual_rate > 0, years >= 1 and a contribution
\* c >= 0, calculate_monthly_investment_for_target(target, annual_rate,
\* years) <= c holds exactly when the last element of
\* simulate_index_investment(c, annual_rate, years) is >= target.
JudgementsAgree ==
  (/\ pc = "simulated"
   /\ SameValue(monthly_investment, current_monthly)
   /\ Positive(annual_rate)
   /\ years >= 1)
  => /\ yearly_wealth # << >>
     /\ FLe(required_monthly, current_monthly)
          <=> FGe(Last(yearly_wealth), target_amount)

\* a contribution below the required one whose simulation reaches the target
JudgementsDisagree ==
  /\ pc = "simulated"
  /\ SameValue(monthly_investment, current_monthly)
  /\ Positive(annual_rate)
  /\ years >= 1
  /\ ~FLe(required_monthly, current_monthly)
  /\ FGe(Last(yearly_wealth), target_amount)

(***************************************************************************)
(* fn main (main.rs 55-187)                                                *)
(***************************************************************************)
\* line 70
periods == <<10, 15, 20, 25, 30>>

\* lines 137 and 168: the horizon of the trajectory and of the summary;
\* line 149 compares the year number with the same literal
TrajectoryYears == 30

\* lines 56-58: target 100,000,000, annual rate 0.05, 50,000 a month
MainScenario == <<Num(100000000), Ratio(5, 100), Num(50000)>>

\* The bindings of lines 56-58 as main has them, and the same with a larger
\* contribution (200,000 a month), under which the branches of main that
\* depend on reaching the target are taken.
Scenarios ==
  {MainScenario,
   <<Num(100000000), Ratio(5, 100), Num(200000)>>}

Line(sec, kind) == [sec |-> sec, kind |-> kind]

MainInit ==
  /\ pc = "main"
  /\ \E sc \in Scenarios :
       /\ target_amount = sc[1]
       /\ annual_rate = sc[2]
       /\ current_monthly = sc[3]
  /\ required_monthly = Zero
  /\ years = 0
  /\ NoFrame
  /\ i = 0
  /\ out = << >>

\* lines 60-78: the banner and the head of the required-contribution table
Banner ==
  /\ pc = "main"
  /\ out' = out \o
       <<[sec |-> "banner", kind |-> "head",
          target |-> format_yen(target_amount),
          rate |-> FormatFixed(FMul(annual_rate, Num(100)), 1),
          monthly |-> format_yen(current_monthly)],
         Line("required", "head")>>
  /\ i' = 1
  /\ pc' = "required"
  /\ UNCHANGED <<scenario, required_monthly, simFrame>>

\* line 92 with the operands exchanged
AchievableSwapped(required, current) == FLe(current, required)

\* line 92
Achievable(required, current) == FLe(required, current)

\* lines 87-105: the row printed for a horizon y and its required contribution
RequiredLine(target, current, y, required) ==
  CHOOSE it \in
    { (CHOOSE it \in
         { (CHOOSE it \in
              { [sec |-> "required", kind |-> "row", years |-> y,
                 required |-> format_yen(required),
                 invested |-> format_yen(total_invested),
                 profit |-> format_yen(profit),
                 profit_rate |-> FormatFixed(profit_rate, 0),
                 achievable |-> Achievable(required, current)]
                : profit_rate \in
                    {FMul(FDiv(profit, total_invested), Num(100))} } : TRUE)
           : profit \in {FSub(target, total_invested)} } : TRUE)
      : total_invested \in {FMul(required, Num(y * 12))} } : TRUE

\* lines 80-106: one row of the required-contribution table
RequiredRow ==
  /\ pc = "required"
  /\ i <= Len(periods)
  /\ years' = periods[i]
  /\ required_monthly' =
       calculate_monthly_investment_for_target(target_amount, annual_rate, years')
  /\ out' = Append(out, RequiredLine(target_amount, current_monthly, years',
                                     required_monthly'))
  /\ i' = i + 1
  /\ UNCHANGED <<pc, scenario, monthly_investment, months, monthly_rate, month,
                 wealth, yearly_wealth, ret>>

\* lines 108-114: the head of the reachable-wealth table
ReachableHead ==
  /\ pc = "required"
  /\ i > Len(periods)
  /\ out' = Append(out, [sec |-> "reachable", kind |-> "head",
                         monthly |-> format_yen(current_monthly)])
  /\ i' = 1
  /\ pc' = "reachable"
  /\ UNCHANGED <<scenario, required_monthly, simFrame>>

\* line 117
ReachableCall ==
  /\ pc = "reachable"
  /\ i <= Len(periods)
  /\ SimEnter(current_monthly, periods[i], "reachable_row")
  /\ UNCHANGED <<scenario, required_monthly, i, out>>

\* lines 118-128: the row printed for a horizon y and its simulated years
ReachableLine(current, y, yearly) ==
  CHOOSE it \in
    { (CHOOSE it \in
         { (CHOOSE it \in
              { [sec |-> "reachable", kind |-> "row", years |-> y,
                 final |-> format_yen(final_wealth),
                 invested |-> format_yen(total_invested),
                 profit |-> format_yen(profit),
                 profit_rate |-> FormatFixed(profit_rate, 0)]
                : profit_rate \in
                    {FMul(FDiv(profit, total_invested), Num(100))} } : TRUE)
           : profit \in {FSub(final_wealth, total_invested)} } : TRUE)
      : final_wealth \in {IF yearly = << >> THEN Zero ELSE Last(yearly)},
        total_invested \in {FMul(current, Num(y * 12))} } : TRUE

\* lines 118-129: one row of the reachable-wealth table
ReachableRow ==
  /\ pc = "reachable_row"
  /\ out' = Append(out, ReachableLine(current_monthly, years, yearly_wealth))
  /\ i' = i + 1
  /\ pc' = "reachable"
  /\ UNCHANGED <<scenario, required_monthly, simFrame>>

\* lines 133-137: the title of the trajectory table and the 30-year simulation
TrajectoryCall ==
  /\ pc = "reachable"
  /\ i > Len(periods)
  /\ out' = Append(out, [sec |-> "trajectory", kind |-> "title",
                         monthly |-> format_yen(current_monthly)])
  /\ SimEnter(current_monthly, TrajectoryYears, "trajectory_head")
  /\ UNCHANGED <<scenario, required_monthly, i>>

\* lines 139-141
TrajectoryHead ==
  /\ pc = "trajectory_head"
  /\ out' = Append(out, Line("trajectory", "head"))
  /\ i' = 0
  /\ pc' = "trajectory"
  /\ UNCHANGED <<scenario, required_monthly, simFrame>>

\* line 149
RowShown(year_num, w, target) ==
  year_num % 5 = 0 \/ FGe(w, target) \/ year_num = TrajectoryYears

\* line 150: TRUE for the target-reached glyph
Marker(w, target) == FGe(w, target)

\* lines 144-157: the row printed for the year numbered year_num with balance w
TrajectoryLine(target, current, year_num, w) ==
  CHOOSE it \in
    { (CHOOSE it \in
         { [sec |-> "trajectory", kind |-> "row",
            marker |-> Marker(w, target),
            year |-> year_num,
            wealth |-> format_yen(w),
            invested |-> format_yen(total_invested),
            profit |-> format_yen(profit)]
           : profit \in {FSub(w, total_invested)} } : TRUE)
      : total_invested \in {FMul(current, Num(year_num * 12))} } : TRUE

\* lines 143-159: one iteration over yearly_wealth.iter().enumerate()
TrajectoryRow ==
  /\ pc = "trajectory"
  /\ i < Len(yearly_wealth)
  /\ out' = IF RowShown(i + 1, yearly_wealth[i + 1], target_amount)
            THEN Append(out, TrajectoryLine(target_amount, current_monthly, i + 1,
                                            yearly_wealth[i + 1]))
            ELSE out
  /\ i' = i + 1
  /\ UNCHANGED <<pc, scenario, required_monthly, simFrame>>

\* lines 161-168: the head of the summary and the second 30-year simulation
SummaryCall ==
  /\ pc = "trajectory"
  /\ i = Len(yearly_wealth)
  /\ out' = Append(out, [sec |-> "summary", kind |-> "head",
                         monthly |-> format_yen(current_monthly)])
  /\ SimEnter(current_monthly, TrajectoryYears, "summary")
  /\ UNCHANGED <<scenario, required_monthly, i>>

\* lines 172-180: the lines printed when the target is missed
ShortfallLine(target, current, final_30y, required_for_30y) ==
  CHOOSE it \in
    { [sec |-> "summary", kind |-> "shortfall",
       final |-> format_yen(final_30y),
       shortfall |-> format_yen(shortfall),
       additional |-> format_yen(additional_needed)]
      : shortfall \in {FSub(target, final_30y)},
        additional_needed \in {FSub(required_for_30y, current)} } : TRUE

\* lines 168-186: .last().unwrap() panics on an empty vector; otherwise the
\* verdict, and the advice
Summary ==
  /\ pc = "summary"
  /\ IF yearly_wealth = << >>
     THEN /\ pc' = "panic"
          /\ UNCHANGED <<required_monthly, out>>
     ELSE IF FGe(Last(yearly_wealth), target_amount)
     THEN /\ out' = out \o <<Line("summary", "achieved"), Line("summary", "points")>>
          /\ UNCHANGED required_monthly
          /\ pc' = "done"
     ELSE /\ required_monthly' =
               calculate_monthly_investment_for_target(
                 target_amount, annual_rate, TrajectoryYears)
          /\ out' = out \o
               <<ShortfallLine(target_amount, current_monthly, Last(yearly_wealth),
                               required_monthly'),
                 Line("summary", "points")>>
          /\ pc' = "done"
  /\ UNCHANGED <<scenario, simFrame, i>>

MainNext ==
  \/ Banner
  \/ RequiredRow
  \/ ReachableHead
  \/ ReachableCall
  \/ SimLoop
  \/ SimReturn
  \/ ReachableRow
  \/ TrajectoryCall
  \/ TrajectoryHead
  \/ TrajectoryRow
  \/ SummaryCall
  \/ Summary

MainSpec == MainInit /\ [][MainNext]_vars

\* main runs to its end: no step is skipped forever
FairMainSpec == MainSpec /\ WF_vars(MainNext)

(***************************************************************************)
(* Properties of the report.                                               *)
(***************************************************************************)
IsTrajectoryRow(l) == l.sec = "trajectory" /\ l.kind = "row"

\* the trajectory rows printed so far
TrajectoryRows == SelectSeq(out, IsTrajectoryRow)

Reached(y) == FGe(yearly_wealth[y], target_amount)

\* y is the year in which the balance reaches the target: it is at or above
\* the target at the end of year y and was below it a year before
JustReached(y) == Reached(y) /\ (y = 1 \/ ~Reached(y - 1))

\* C6: in the 30-year trajectory table a row is printed for year y, in
\* increasing year order, exactly when y is a multiple of 5, or y is the year
\* whose balance has just reached the target, or y = 30; the row's marker is
\* the target-reached glyph exactly when that year's balance is >= target.
TrajectoryRowsAtReach ==
  pc = "trajectory" =>
    /\ \A y \in 1..i :
         (\E j \in 1..Len(TrajectoryRows) : TrajectoryRows[j].year = y)
           <=> (y % 5 = 0 \/ JustReached(y) \/ y = 30)
    /\ \A j \in 1..Len(TrajectoryRows) :
         /\ j > 1 => TrajectoryRows[j - 1].year < TrajectoryRows[j].year
         /\ TrajectoryRows[j].marker <=> Reached(TrajectoryRows[j].year)

\* a row is printed for a year that is no multiple of 5, not the last, and
\* not the year in which the target was reached
RowPrintedAfterReach ==
  /\ pc = "trajectory"
  /\ \E j \in 1..Len(TrajectoryRows) :
       /\ TrajectoryRows[j].year % 5 # 0
       /\ TrajectoryRows[j].year # 30
       /\ TrajectoryRows[j].year <= i
       /\ ~JustReached(TrajectoryRows[j].year)

IsRequiredRow(l) == l.sec = "required" /\ l.kind = "row"

\* the rows of the required-contribution table printed so far
RequiredRows == SelectSeq(out, IsRequiredRow)

\* C7: the required-contribution table has its rows for the horizons 10, 15,
\* 20, 25, 30 in that order; a row is flagged achievable exactly when
\* calculate_monthly_investment_for_target(target, rate, horizon) <= the
\* current contribution; once a horizon is achievable every longer one is; and
\* the first achievable horizon is fixed by the constants: with target
\* 100,000,000, rate 0.05 and 50,000 a month no horizon of the table is
\* achievable, with 200,000 a month the first is 25.
HorizonTable ==
  (pc = "required" \/ (pc = "reachable" /\ i = 1)) =>
    /\ Len(RequiredRows) = (IF pc = "required" THEN i - 1 ELSE 5)
    /\ \A j \in 1..Len(RequiredRows) :
         /\ RequiredRows[j].years = <<10, 15, 20, 25, 30>>[j]
         /\ RequiredRows[j].achievable
              <=> FLe(calculate_monthly_investment_for_target(
                        target_amount, annual_rate, RequiredRows[j].years),
                      current_monthly)
         /\ \A k \in 1..(j - 1) : RequiredRows[k].achievable => RequiredRows[j].achievable
         /\ (FEq(target_amount, Num(100000000)) /\ FEq(current_monthly, Num(50000)))
              => ~RequiredRows[j].achievable
         /\ (FEq(target_amount, Num(100000000)) /\ FEq(current_monthly, Num(200000)))
              => (RequiredRows[j].achievable <=> RequiredRows[j].years >= 25)

\* the whole table is printed, with the flag turning at its fourth row
FlagTurnsInTable ==
  /\ pc = "reachable"
  /\ i = 1
  /\ Len(RequiredRows) = 5
  /\ ~RequiredRows[3].achievable
  /\ RequiredRows[4].achievable

\* the place of a section in the report
Rank(sec) ==
  CASE sec = "banner" -> 1
    [] sec = "required" -> 2
    [] sec = "reachable" -> 3
    [] sec = "trajectory" -> 4
    [] sec = "summary" -> 5

\* no panic, each simulation loop bounded by and ending at years * 12
\* iterations, and the sections printed in their order
RunsSafely ==
  /\ pc # "panic"
  /\ pc = "summary" => yearly_wealth # << >>
  /\ pc = "sim" => month <= years * 12 /\ years * 12 <= 360
  /\ pc \in {"reachable_row", "trajectory_head", "summary"} => month = years * 12
  /\ \A j \in 1..(Len(out) - 1) : Rank(out[j].sec) <= Rank(out[j + 1].sec)
  /\ pc = "done" => {Rank(out[j].sec) : j \in 1..Len(out)} = 1..5

\* C8: the program always terminates successfully: each call of
\* simulate_index_investment ends after exactly years * 12 iterations (at most
\* 360), the banner, the required-contribution table, the reachable-wealth
\* table, the trajectory table and the summary are printed in that order, no
\* panic is reachable (the unwrap of the last element meets a non-empty
\* sequence), and main reaches its end.
TerminatesSuccessfully == []RunsSafely /\ <>(pc = "done")

\* main has ended with the whole report printed
ReportComplete ==
  /\ pc = "done"
  /\ Len(TrajectoryRows) >= 6
  /\ out[Len(out)] = Line("summary", "points")

====
